---- MODULE Spec2Model ----
(***************************************************************************)
(* Model of python/rmm/rmm.py: the Numba external-memory-manager plugin    *)
(* RMMNumbaManager (memalloc / finalizer / reset over the `allocations`    *)
(* dictionary) and the process-wide lifecycle functions (_initialize,      *)
(* _finalize, reinitialize, is_initialized).                               *)
(*                                                                         *)
(* Encodings.  Python's None for initial_pool_size is the integer -1       *)
(* (never a legal size).  The `devices` argument, which Python accepts as  *)
(* None, an int or a list, is a record [kind, id, ids].  A DeviceBuffer is *)
(* identified by the index of the MemoryPointer that memalloc returned for *)
(* it.  An exception leaving an operation is the string in result.raised.  *)
(***************************************************************************)
EXTENDS Integers, Sequences, FiniteSets, TLC

\* ------------------------------------------------------------------ bounds
MaxAllocs == 2
PoolBytes == 1
MaxFinCalls == 2
MaxPoolSize == 2
MaxDevice == 2
MaxDevLen == 2
MaxDefer == 1

\* The largest request: one byte more than the whole pool holds.
MaxBytes == PoolBytes + 1

\* --------------------------------------------------------------- constants
None == -1
NullPtr == 0
PoolAllocation == 1
CudaManagedMemory == 2

VARIABLES
    allocations,  \* self.allocations: handle -> DeviceBuffer (its identity)
    mems,         \* the MemoryPointers memalloc has returned, in order
    finalized,    \* per MemoryPointer: how often its finalizer was invoked
    cleared,      \* per MemoryPointer: reset() was called after its memalloc
    freed,        \* per DeviceBuffer: how often it was returned to the pool
    tracked,      \* DeviceBuffers that were ever inserted into allocations
    initialized,  \* librmm's process-wide state (rmm_is_initialized)
    request,      \* the arguments the caller passes to initialize / reinitialize
    pending,      \* finalizers between their check (line 269) and their del (line 270)
    scopes,       \* defer_cleanup() scopes of the manager that are open
    deferring,    \* the host framework's deferred-cleanup nesting depth
    result        \* what the last operation did: librmm calls made, error raised

vars ==
    <<allocations, mems, finalized, cleared, freed, tracked, initialized, request,
      pending, scopes, deferring, result>>

\* ------------------------------------------------------- Python dictionary
EmptyDict == [k \in {} |-> 0]

DictSet(d, k, v) == [x \in (DOMAIN d) \cup {k} |-> IF x = k THEN v ELSE d[x]]

DictDel(d, k) == [x \in (DOMAIN d) \ {k} |-> d[x]]

Values(d) == {d[k] : k \in DOMAIN d}

\* --------------------------------------------------------- argument values
DevNone == [kind |-> "none", id |-> 0, ids |-> << >>]

DevInt(d) == [kind |-> "int", id |-> d, ids |-> << >>]

DevList(s) == [kind |-> "list", id |-> 0, ids |-> s]

DefaultArgs ==
    [pool_allocator |-> FALSE, managed_memory |-> FALSE,
     initial_pool_size |-> None, devices |-> DevInt(0), logging |-> FALSE]

Result(op, mem, raised, calls) ==
    [op |-> op, mem |-> mem, raised |-> raised, calls |-> calls]

\* ------------------------------------------------------- the pool (librmm)
\* Bytes of the pool occupied by the buffer of MemoryPointer b.
Extent(b) == {a \in 1..PoolBytes : mems[b].handle <= a /\ a < mems[b].handle + mems[b].nbytes}

\* Bytes occupied by the buffers that are still owned by the registry.
InUse(allocs) == UNION {Extent(b) : b \in Values(allocs)}

\* librmm.DeviceBuffer(size=nbytes).ptr: the addresses the pool can hand out.
\* A freed range is handed out again; a zero-byte buffer has the null pointer.
\* The empty set means the pool cannot satisfy the request (MemoryError).
DeviceBufferPtrs(nbytes, allocs) ==
    IF nbytes = 0 THEN {NullPtr}
    ELSE {a \in 1..PoolBytes :
            /\ a + nbytes - 1 <= PoolBytes
            /\ \A x \in a..(a + nbytes - 1) : x \notin InUse(allocs)}

\* A DeviceBuffer is returned to the pool when the last reference to it goes:
\* the registry is its only owner, so every buffer that leaves it is freed.
Release(old, new, counts) ==
    [b \in DOMAIN counts |->
        IF b \in Values(old) /\ b \notin Values(new) THEN counts[b] + 1 ELSE counts[b]]

\* ----------------------------------------------------------------- Init
Init ==
    /\ allocations = EmptyDict
    /\ mems = << >>
    /\ finalized = << >>
    /\ cleared = << >>
    /\ freed = << >>
    /\ tracked = {}
    /\ initialized = FALSE
    /\ request = DefaultArgs
    /\ pending = EmptyDict
    /\ scopes = 0
    /\ deferring = 0
    /\ result = Result("init", 0, "none", << >>)

\* --------------------------------------------------- RMMNumbaManager
\* self.allocations[ptr.value] = buf (line 157).  self.allocations is the
\* UniqueDict that Numba's memory-manager base class creates: assigning to a
\* key it already holds fails an assertion instead of replacing the value.
InsertAllocation(allocs, handle, buf) ==
    IF handle \in DOMAIN allocs
    THEN [allocations |-> allocs, raised |-> "AssertionError"]
    ELSE [allocations |-> DictSet(allocs, handle, buf), raised |-> "none"]

\* Faulty variant: a record is stored before the failed allocation is reported.
MemallocInsertsOnFailure(ok, allocs, handle, buf) ==
    IF ~ok
    THEN [allocations |-> DictSet(allocs, NullPtr, buf), raised |-> "MemoryError"]
    ELSE InsertAllocation(allocs, handle, buf)

\* Faulty variant: line 157 is missing, the pointer is returned untracked.
MemallocNeverInserts(ok, allocs, handle, buf) ==
    IF ~ok
    THEN [allocations |-> allocs, raised |-> "MemoryError"]
    ELSE [allocations |-> allocs, raised |-> "none"]

\* The registry part of memalloc, lines 154-157, for a request the pool can
\* (ok) or cannot satisfy: DeviceBuffer(...) raises before anything is stored.
memalloc(ok, allocs, handle, buf) ==
    IF ~ok
    THEN [allocations |-> allocs, raised |-> "MemoryError"]
    ELSE InsertAllocation(allocs, handle, buf)

\* RMMNumbaManager.memalloc(nbytes), lines 153-160.  The MemoryPointer is
\* constructed and returned only when nothing before line 159 raised.
Memalloc ==
    /\ \E request_size \in 0..MaxBytes :
         LET nbytes == MaxBytes - request_size
             ptrs == DeviceBufferPtrs(nbytes, allocations)
             ok == ptrs # {}
             buf == Len(mems) + 1
         IN  \E ptr \in IF ok THEN ptrs ELSE {NullPtr} :
                LET out == memalloc(ok, allocations, ptr, buf)
                IN  /\ allocations' = out.allocations
                    /\ IF out.raised = "none"
                       THEN /\ Len(mems) < MaxAllocs
                            /\ mems' = Append(mems, [handle |-> ptr, nbytes |-> nbytes])
                            /\ finalized' = Append(finalized, 0)
                            /\ cleared' = Append(cleared, FALSE)
                            /\ freed' = Release(allocations, out.allocations, Append(freed, 0))
                            /\ tracked' = tracked \cup (Values(out.allocations) \ Values(allocations))
                            /\ result' = Result("memalloc", buf, "none", << >>)
                       ELSE /\ freed' = Release(allocations, out.allocations, freed)
                            /\ result' = Result("memalloc", 0, out.raised, << >>)
                            /\ UNCHANGED <<mems, finalized, cleared, tracked>>
    /\ UNCHANGED <<initialized, request, pending, scopes, deferring>>

\* Faulty variant: the guard of line 269 is missing.
FinalizerUnguarded(handle, allocs) ==
    IF handle \in DOMAIN allocs
    THEN [allocations |-> DictDel(allocs, handle), raised |-> "none"]
    ELSE [allocations |-> allocs, raised |-> "KeyError"]

\* Faulty variant: the del of line 270 is missing.
FinalizerWithoutDel(handle, allocs) == [allocations |-> allocs, raised |-> "none"]

\* Faulty variant: the guard of line 269 tests `handle in allocations`.
FinalizerGuardsMembership(handle, allocs) ==
    IF handle \in DOMAIN allocs
    THEN [allocations |-> DictDel(allocs, handle), raised |-> "none"]
    ELSE [allocations |-> allocs, raised |-> "none"]

\* The closure _make_finalizer(handle, allocations) returns (lines 251-270).
finalizer(handle, allocs) ==
    IF DOMAIN allocs # {}
    THEN IF handle \in DOMAIN allocs
         THEN [allocations |-> DictDel(allocs, handle), raised |-> "none"]
         ELSE [allocations |-> allocs, raised |-> "KeyError"]
    ELSE [allocations |-> allocs, raised |-> "none"]

Handle(m) == mems[m].handle

\* The host framework invokes the finalizer of MemoryPointer m.
Finalizer(m) ==
    /\ finalized[m] < MaxFinCalls
    /\ LET fin == finalizer(mems[m].handle, allocations)
       IN  /\ allocations' = fin.allocations
           /\ freed' = Release(allocations, fin.allocations, freed)
           /\ result' = Result("finalizer", m, fin.raised, << >>)
    /\ finalized' = [finalized EXCEPT ![m] = @ + 1]
    /\ UNCHANGED <<mems, cleared, tracked, initialized, request, pending, scopes, deferring>>

\* Faulty variant: reset() does not reach the base class's clear.
ResetKeepsAllocations(allocs) == allocs

\* HostOnlyCUDAMemoryManager.reset(): clears self.allocations (lines 189-192).
ResetAllocations(allocs) == EmptyDict

Reset ==
    /\ allocations' = ResetAllocations(allocations)
    /\ freed' = Release(allocations, allocations', freed)
    /\ cleared' = [m \in DOMAIN cleared |-> TRUE]
    /\ result' = Result("reset", 0, "none", << >>)
    /\ UNCHANGED <<mems, finalized, tracked, initialized, request, pending, scopes, deferring>>

Next ==
    \/ Memalloc
    \/ Reset
    \/ \E m \in DOMAIN mems : Finalizer(m)

Spec == Init /\ [][Next]_vars

\* ------------------------------------------------------------- lifecycle
manager ==
    <<allocations, mems, finalized, cleared, freed, tracked, request, pending, scopes,
      deferring>>

SeqsUpTo(S, n) == UNION {[1..k -> S] : k \in 0..n}

DeviceArgs ==
    {DevNone} \cup {DevInt(d) : d \in 0..MaxDevice}
              \cup {DevList(s) : s \in SeqsUpTo(0..MaxDevice, MaxDevLen)}

InitArgs ==
    [pool_allocator : BOOLEAN, managed_memory : BOOLEAN,
     initial_pool_size : {None} \cup (0..MaxPoolSize),
     devices : DeviceArgs, logging : BOOLEAN]

\* allocation_mode, lines 46-51: the two flags are distinct bits, so | is +.
AllocationMode(pool_allocator, managed_memory) ==
    (IF pool_allocator THEN PoolAllocation ELSE 0)
        + (IF managed_memory THEN CudaManagedMemory ELSE 0)

\* Faulty variant: the branch of lines 57-58 is missing.
PoolSizeZeroAsDefault(pool_allocator, initial_pool_size) ==
    IF ~pool_allocator THEN 0
    ELSE IF initial_pool_size = None THEN 0
    ELSE initial_pool_size

\* Faulty variant: the branch of lines 53-54 is missing.
PoolSizeIgnoringAllocator(pool_allocator, initial_pool_size) ==
    IF initial_pool_size = None THEN 0
    ELSE IF initial_pool_size = 0 THEN 1
    ELSE initial_pool_size

\* initial_pool_size, lines 53-58.
NormalizePoolSize(pool_allocator, initial_pool_size) ==
    IF ~pool_allocator THEN 0
    ELSE IF initial_pool_size = None THEN 0
    ELSE IF initial_pool_size = 0 THEN 1
    ELSE initial_pool_size

\* Faulty variant: the branch of lines 62-63 is missing.
DevicesIntUnwrapped(devices) ==
    IF devices.kind = "none" THEN <<0>> ELSE devices.ids

\* devices, lines 60-63.
NormalizeDevices(devices) ==
    IF devices.kind = "none" THEN <<0>>
    ELSE IF devices.kind = "int" THEN <<devices.id>>
    ELSE devices.ids

FinalizeCall(outcome) ==
    [fn |-> "rmm_finalize", allocation_mode |-> 0, initial_pool_size |-> 0,
     devices |-> << >>, logging |-> FALSE, outcome |-> outcome]

\* The call of librmm.rmm_initialize that _initialize makes, lines 65-67.
InitializeCall(args, outcome) ==
    [fn |-> "rmm_initialize",
     allocation_mode |-> AllocationMode(args.pool_allocator, args.managed_memory),
     initial_pool_size |-> NormalizePoolSize(args.pool_allocator, args.initial_pool_size),
     devices |-> NormalizeDevices(args.devices),
     logging |-> args.logging, outcome |-> outcome]

\* librmm.rmm_finalize(): a status, which may report an error, or an error raised.
FinalizeOutcomes == {"ok", "error_status", "raised"}

\* librmm.rmm_initialize(...): success, or an error raised.
InitializeOutcomes == {"ok", "raised"}

\* The library's state after rmm_finalize: finalized on success; after a failure
\* the old state may or may not have been torn down.
AfterFinalize(outcome, was) == IF outcome = "ok" THEN {FALSE} ELSE {was, FALSE}

Raised(outcome) == IF outcome = "raised" THEN "RMMError" ELSE "none"

\* _initialize(...), lines 36-67.
Initialize ==
    /\ \E o \in InitializeOutcomes :
         /\ initialized' = IF o = "ok" THEN TRUE ELSE initialized
         /\ result' = Result("initialize", 0, Raised(o), <<InitializeCall(request, o)>>)
    /\ UNCHANGED manager

\* _finalize(), lines 70-74.
Finalize ==
    /\ \E o \in FinalizeOutcomes :
         /\ initialized' \in AfterFinalize(o, initialized)
         /\ result' = Result("finalize", 0, Raised(o), <<FinalizeCall(o)>>)
    /\ UNCHANGED manager

\* reinitialize(...), lines 107-114: _finalize() and then _initialize(...).  An
\* error raised by _finalize() leaves reinitialize at line 107.
Reinitialize ==
    /\ \E f \in FinalizeOutcomes, i \in InitializeOutcomes :
         \E mid \in AfterFinalize(f, initialized) :
            IF f = "raised"
            THEN /\ initialized' = mid
                 /\ result' = Result("reinitialize", 0, "RMMError", <<FinalizeCall(f)>>)
            ELSE /\ initialized' = IF i = "ok" THEN TRUE ELSE mid
                 /\ result' = Result("reinitialize", 0, Raised(i),
                                     <<FinalizeCall(f), InitializeCall(request, i)>>)
    /\ UNCHANGED manager

\* is_initialized(), lines 117-121.
IsInitialized ==
    /\ result' = Result("is_initialized", 0, "none", << >>)
    /\ UNCHANGED <<manager, initialized>>

\* The caller's arguments are fixed at the start of a behaviour.
LifecycleInit ==
    /\ allocations = EmptyDict
    /\ mems = << >>
    /\ finalized = << >>
    /\ cleared = << >>
    /\ freed = << >>
    /\ tracked = {}
    /\ initialized = FALSE
    /\ request \in InitArgs
    /\ pending = EmptyDict
    /\ scopes = 0
    /\ deferring = 0
    /\ result = Result("init", 0, "none", << >>)

LifecycleNext ==
    \/ Initialize
    \/ Finalize
    \/ Reinitialize
    \/ IsInitialized

LifecycleSpec == LifecycleInit /\ [][LifecycleNext]_vars

\* ------------------------------------------------ finalizers on threads
\* The test of line 269, `if allocations:`.
FinalizerGuard(allocs) == DOMAIN allocs # {}

\* The statement of line 270, `del allocations[handle]`.
FinalizerDelete(handle, allocs) ==
    IF handle \in DOMAIN allocs
    THEN [allocations |-> DictDel(allocs, handle), raised |-> "none"]
    ELSE [allocations |-> allocs, raised |-> "KeyError"]

\* A thread starts the finalizer of MemoryPointer m and evaluates line 269.
\* The interpreter may switch threads before line 270.  pending[m] records
\* whether m's handle was a key when the check passed.
FinalizerCheck(m) ==
    /\ m \notin DOMAIN pending
    /\ finalized[m] < MaxFinCalls
    /\ IF FinalizerGuard(allocations)
       THEN /\ pending' = DictSet(pending, m, Handle(m) \in DOMAIN allocations)
            /\ result' = Result("finalizer_check", m, "none", << >>)
            /\ UNCHANGED finalized
       ELSE /\ finalized' = [finalized EXCEPT ![m] = @ + 1]
            /\ result' = Result("finalizer", m, "none", << >>)
            /\ UNCHANGED pending
    /\ UNCHANGED <<allocations, mems, cleared, freed, tracked, initialized, request,
                   scopes, deferring>>

\* The thread that passed the check for m executes line 270.
FinalizerDel(m) ==
    /\ m \in DOMAIN pending
    /\ LET fin == FinalizerDelete(Handle(m), allocations)
       IN  /\ allocations' = fin.allocations
           /\ freed' = Release(allocations, fin.allocations, freed)
           /\ result' = Result("finalizer", m, fin.raised, << >>)
    /\ finalized' = [finalized EXCEPT ![m] = @ + 1]
    /\ pending' = DictDel(pending, m)
    /\ UNCHANGED <<mems, cleared, tracked, initialized, request, scopes, deferring>>

\* memalloc and reset() on one thread, finalizers on others: the dictionary
\* operations themselves are atomic, the finalizer's two lines are not.
ThreadedNext ==
    \/ Memalloc
    \/ Reset
    \/ \E m \in DOMAIN mems : FinalizerCheck(m)
    \/ \E m \in DOMAIN mems : FinalizerDel(m)

ThreadedSpec == Init /\ [][ThreadedNext]_vars

\* ------------------------------------- the manager in the host framework
LibCall(fn) ==
    [fn |-> fn, allocation_mode |-> 0, initial_pool_size |-> 0,
     devices |-> << >>, logging |-> FALSE, outcome |-> "ok"]

\* get_memory_info(), lines 182-183: get_info(), i.e. librmm.rmm_getinfo(0).
GetMemoryInfo ==
    /\ result' = Result("get_memory_info", 0, "none", <<LibCall("rmm_getinfo")>>)
    /\ UNCHANGED <<manager, initialized>>

\* get_ipc_handle(memory), lines 162-180, for a pointer memalloc returned.
GetIpcHandle(m) ==
    /\ result' = Result("get_ipc_handle", m, "none", <<LibCall("rmm_getallocationoffset")>>)
    /\ UNCHANGED <<manager, initialized>>

\* Faulty variant: initialize() creates the registry anew.
InitializeRecreatesAllocations(allocs) == EmptyDict

\* initialize(), lines 185-187: the base class's initialize, nothing for RMM.
InitializeAllocations(allocs) == allocs

ManagerInitialize ==
    /\ allocations' = InitializeAllocations(allocations)
    /\ freed' = Release(allocations, allocations', freed)
    /\ result' = Result("manager_initialize", 0, "none", << >>)
    /\ UNCHANGED <<mems, finalized, cleared, tracked, initialized, request, pending,
                   scopes, deferring>>

\* Faulty variant: the scope is unwound only when its body returns normally.
UnwindOnReturnOnly(depth, how) == IF how = "return" THEN depth - 1 ELSE depth

\* Leaving `with super().defer_cleanup():` (line 198) by `how`: the with
\* statement runs the host framework's exit once, on return and on raise.
Unwind(depth, how) == depth - 1

\* Entering defer_cleanup(), lines 194-199: the generator runs to its yield
\* inside the host framework's own defer_cleanup scope.
DeferEnter ==
    /\ scopes < MaxDefer
    /\ scopes' = scopes + 1
    /\ deferring' = deferring + 1
    /\ result' = Result("defer_enter", 0, "none", << >>)
    /\ UNCHANGED <<allocations, mems, finalized, cleared, freed, tracked, initialized,
                   request, pending>>

\* Leaving the innermost defer_cleanup() scope: its body returned, or raised an
\* error that is thrown into the generator at the yield and propagates.
DeferExit ==
    /\ scopes > 0
    /\ \E how \in {"return", "raise"} :
         /\ deferring' = Unwind(deferring, how)
         /\ result' = Result("defer_exit", 0, IF how = "raise" THEN "BodyError" ELSE "none",
                             << >>)
    /\ scopes' = scopes - 1
    /\ UNCHANGED <<allocations, mems, finalized, cleared, freed, tracked, initialized,
                   request, pending>>

\* The host framework invokes each finalizer once (weakref.finalize).
FinalizerOnce(m) == finalized[m] = 0 /\ Finalizer(m)

FrameworkNext ==
    \/ Memalloc
    \/ Reset
    \/ \E m \in DOMAIN mems : FinalizerOnce(m)
    \/ GetMemoryInfo
    \/ \E m \in DOMAIN mems : GetIpcHandle(m)
    \/ ManagerInitialize
    \/ DeferEnter
    \/ DeferExit
    \/ IsInitialized
    \/ Reinitialize

FrameworkSpec == Init /\ [][FrameworkNext]_vars

\* ================================================================ claims
\* A MemoryPointer is live until its own finalizer has been invoked or reset()
\* has been called after its memalloc.
Live(m) == finalized[m] = 0 /\ ~cleared[m]

\* m's finalizer is invoked again, or for the first time after a reset().
Stale(m) == finalized[m] >= 1 \/ cleared[m]

\* C1 (registry completeness): the handle of every MemoryPointer that memalloc
\* returned and that has not been released is a key of allocations.
RegistryCompleteness ==
    \A m \in DOMAIN mems : Live(m) => Handle(m) \in DOMAIN allocations

\* C2 (release correctness): right after the first invocation of the finalizer
\* made for handle h, h is not a key of allocations.
ReleaseCorrectness ==
    (result.op = "finalizer" /\ finalized[result.mem] = 1)
        => Handle(result.mem) \notin DOMAIN allocations

ReleaseWitness ==
    /\ result.op = "finalizer"
    /\ result.raised = "none"
    /\ finalized[result.mem] = 1
    /\ ~cleared[result.mem]
    /\ freed[result.mem] = 1
    /\ DOMAIN allocations # {}

ExactlyOnceRelease ==
    \A b \in DOMAIN mems :
        /\ freed[b] <= 1
        /\ b \in Values(allocations) => freed[b] = 0
        /\ (finalized[b] >= 1 \/ cleared[b]) => freed[b] = 1

\* Out-of-order teardown: the later buffer finalized first, a reset() before the
\* earlier buffer's finalizer, both buffers returned once.
ExactlyOnceWitness ==
    /\ Len(mems) = 2
    /\ Handle(1) # Handle(2)
    /\ finalized[2] = 1 /\ ~cleared[2]
    /\ finalized[1] = 1 /\ cleared[1]
    /\ freed[1] = 1 /\ freed[2] = 1

\* C5 (bulk release completeness): after reset() allocations is empty.
ResetEmptiesRegistry == result.op = "reset" => allocations = EmptyDict

\* reset() with two buffers tracked, none of them finalized.
ResetWitness ==
    /\ result.op = "reset"
    /\ Len(mems) = 2
    /\ Handle(1) # Handle(2)
    /\ \A m \in DOMAIN mems : finalized[m] = 0 /\ cleared[m] /\ freed[m] = 1

\* C6 (no partial state on allocation failure): a memalloc that raises because
\* the pool cannot satisfy it leaves allocations, and the pointers handed out,
\* as they were.
NoPartialStateOnFailure ==
    [][(result'.op = "memalloc" /\ result'.raised = "MemoryError")
          => (allocations' = allocations /\ mems' = mems /\ freed' = freed)]_vars

\* A failed memalloc while a buffer is tracked.
AllocationFailureWitness ==
    /\ result.op = "memalloc"
    /\ result.raised = "MemoryError"
    /\ DOMAIN allocations # {}

\* C7 (track before publish): every MemoryPointer memalloc returned had its
\* buffer inserted into allocations, and on return from memalloc the pointer's
\* handle is a key of allocations that maps to its buffer.
TrackBeforePublish ==
    /\ \A m \in DOMAIN mems : m \in tracked
    /\ (result.op = "memalloc" /\ result.raised = "none")
          => /\ Handle(result.mem) \in DOMAIN allocations
             /\ allocations[Handle(result.mem)] = result.mem

TrackBeforePublishWitness ==
    /\ result.op = "memalloc"
    /\ result.raised = "none"
    /\ result.mem = 2
    /\ Cardinality(DOMAIN allocations) = 2

\* C8 (reinitialize ordering): a call of reinitialize makes exactly one
\* rmm_finalize call and then exactly one rmm_initialize call, the latter
\* with the normalized arguments.
ReinitializeOrdering ==
    result.op = "reinitialize"
        => /\ Len(result.calls) = 2
           /\ result.calls[1].fn = "rmm_finalize"
           /\ result.calls[2] = InitializeCall(request, result.calls[2].outcome)

\* C9 (best-effort finalize): when rmm_finalize fails inside reinitialize, the
\* rmm_initialize call with the new arguments is still made, and when it
\* succeeds the library is initialized.
ReinitializeBestEffort ==
    (result.op = "reinitialize" /\ result.calls[1].outcome # "ok")
        => /\ Len(result.calls) = 2
           /\ result.calls[2].fn = "rmm_initialize"
           /\ result.calls[2].outcome = "ok" => initialized

\* C10 (pooling-disabled normalization): with pool_allocator=False every
\* rmm_initialize call carries pool size 0.
PoolingDisabledSizeZero ==
    \A i \in DOMAIN result.calls :
        (result.calls[i].fn = "rmm_initialize" /\ ~request.pool_allocator)
            => result.calls[i].initial_pool_size = 0

\* initialize(pool_allocator=False, managed_memory=True, initial_pool_size > 0).
PoolingDisabledWitness ==
    /\ result.op = "initialize"
    /\ ~request.pool_allocator
    /\ request.managed_memory
    /\ request.initial_pool_size = MaxPoolSize
    /\ result.calls[1].initial_pool_size = 0
    /\ result.calls[1].allocation_mode = CudaManagedMemory

\* The rmm_initialize calls the last operation made.
InitializeCalls == {i \in DOMAIN result.calls : result.calls[i].fn = "rmm_initialize"}

\* C11 (explicit-zero disambiguation): with pool_allocator=True the pool size
\* passed is 1 for initial_pool_size=0, the default-sizing value 0 (which is
\* not 1) for initial_pool_size=None, and the given size when it is positive.
ExplicitZeroDisambiguation ==
    \A i \in InitializeCalls :
        request.pool_allocator
            => /\ request.initial_pool_size = 0 => result.calls[i].initial_pool_size = 1
               /\ request.initial_pool_size = None
                    => (result.calls[i].initial_pool_size = 0
                        /\ result.calls[i].initial_pool_size
                              # NormalizePoolSize(TRUE, 0))
               /\ request.initial_pool_size > 0
                    => result.calls[i].initial_pool_size = request.initial_pool_size

\* initialize(pool_allocator=True, initial_pool_size=0) reached librmm with 1.
ExplicitZeroWitness ==
    /\ result.op = "initialize"
    /\ request.pool_allocator
    /\ request.initial_pool_size = 0
    /\ result.calls[1].initial_pool_size = 1
    /\ result.calls[1].allocation_mode = PoolAllocation

\* C12 (device-set normalization): a single device id d is passed as <<d>>,
\* devices=None as <<0>>, and a list as exactly its own elements.
DeviceSetNormalization ==
    \A i \in InitializeCalls :
        /\ request.devices.kind = "int" => result.calls[i].devices = <<request.devices.id>>
        /\ request.devices.kind = "none" => result.calls[i].devices = <<0>>
        /\ request.devices.kind = "list" => result.calls[i].devices = request.devices.ids

\* reinitialize(devices=[1, 2]) reached librmm with [1, 2].
DeviceSetWitness ==
    /\ result.op = "reinitialize"
    /\ request.devices = DevList(<<1, 2>>)
    /\ Len(result.calls) = 2
    /\ result.calls[2].devices = <<1, 2>>

\* C13 (non-empty device set): the device collection of every rmm_initialize
\* call is non-empty.
DeviceSetNonEmpty ==
    \A i \in InitializeCalls : result.calls[i].devices # << >>

\* C14 (serialized registry access): no finalizer that passed its check with
\* its handle in the registry comes to its del with the handle removed by a
\* concurrent reset() or finalizer: check and del act as one step.
CheckAndDelAtomic ==
    [][\A m \in DOMAIN pending :
          (FinalizerDel(m) /\ pending[m])
              => (Handle(m) \in DOMAIN allocations /\ result'.raised = "none")]_vars

\* C15 (defer_cleanup unwinding): the host framework's deferred-cleanup depth
\* equals the number of open defer_cleanup() scopes of the manager, so every
\* scope left, by return or by raise, was unwound exactly once.
DeferUnwoundOnce == deferring = scopes

\* A scope left by an error raised in its body, which propagated, with a
\* buffer tracked.
DeferRaiseWitness ==
    /\ result.op = "defer_exit"
    /\ result.raised = "BodyError"
    /\ scopes = 0
    /\ deferring = 0
    /\ DOMAIN allocations # {}

\* C16 (benign empty-registry race): a finalizer invoked while allocations is
\* empty removes nothing, raises nothing and leaves allocations empty.
EmptyRegistryFinalizerNoOp ==
    [][\A m \in DOMAIN mems :
          (Finalizer(m) /\ allocations = EmptyDict)
              => /\ allocations' = EmptyDict
                 /\ freed' = freed
                 /\ result'.raised = "none"]_vars

\* The only pointer's finalizer, first invoked after a reset().
EmptyRegistryWitness ==
    /\ Len(mems) = 1
    /\ cleared[1]
    /\ finalized[1] = 1
    /\ result.op = "finalizer"
    /\ result.raised = "none"
    /\ allocations = EmptyDict

\* C17 (one record per live allocation): every live MemoryPointer has a record
\* under its handle that owns its buffer, which was not returned to the pool,
\* and there are as many records as live MemoryPointers.
OneRecordPerLiveAllocation ==
    /\ \A m \in DOMAIN mems :
          Live(m) => /\ Handle(m) \in DOMAIN allocations
                     /\ allocations[Handle(m)] = m
                     /\ freed[m] = 0
    /\ Cardinality(DOMAIN allocations) = Cardinality({m \in DOMAIN mems : Live(m)})

\* C18 (registry mutation discipline): allocations changes only by memalloc
\* inserting the new pointer's record, a finalizer deleting the entry of its
\* handle, or reset() clearing it; every other operation leaves it unchanged.
RegistryMutationDiscipline ==
    [][allocations' # allocations
          => \/ /\ result'.op = "memalloc"
                /\ result'.raised = "none"
                /\ mems'[result'.mem].handle \notin DOMAIN allocations
                /\ allocations'
                     = DictSet(allocations, mems'[result'.mem].handle, result'.mem)
             \/ /\ result'.op = "finalizer"
                /\ allocations' = DictDel(allocations, Handle(result'.mem))
             \/ /\ result'.op = "reset"
                /\ allocations' = EmptyDict]_vars

\* initialize() of the manager, called with a buffer tracked, inside a
\* defer_cleanup() scope and after a reinitialize.
MutationDisciplineWitness ==
    /\ result.op = "manager_initialize"
    /\ DOMAIN allocations # {}
    /\ scopes > 0
    /\ initialized

\* C19 (a finalizer removes only its own record): a finalizer deletes no record
\* that owns the buffer of another MemoryPointer, nor changes it.
FinalizerRemovesOwnRecordOnly ==
    [][\A m \in DOMAIN mems :
          Finalizer(m)
              => \A h \in DOMAIN allocations :
                    allocations[h] # m
                        => (h \in DOMAIN allocations' /\ allocations'[h] = allocations[h])]_vars

====
